---- MODULE Spec2Model ----
(***************************************************************************)
(* Model of the CoinDCX futures client (src/coindcx_futures.py) and of the *)
(* auto-reconnect loop that drives it (src/example_usage.py,               *)
(* example_websocket).                                                     *)
(*                                                                         *)
(* The socket.io client object behind self.sio is library code.  It is     *)
(* modelled by its observable contract: `transportUp` is sio.connected,    *)
(* `wire` is the sequence of frames written to the live transport          *)
(* connection (empty when there is none), sio.connect() either brings the  *)
(* transport up or raises, sio.emit() either writes the frame or raises,   *)
(* sio.disconnect() closes the transport.  Every `await` of the source is  *)
(* a step boundary; code between two awaits runs in one step (asyncio runs *)
(* one coroutine at a time).                                               *)
(***************************************************************************)
EXTENDS Integers, Sequences, FiniteSets, TLC

\* ------------------------------------------------------------- bounds
\* Frames kept per transport connection.
MaxFrames == 3
\* Keepalive tasks alive at once.
MaxTasks == 2
\* Consecutive failed connect attempts of the reconnect loop.
MaxFailures == 6
\* Calls of the on_* registration methods that are recorded.
MaxRegistrations == 2

\* ---------------------------------------------------- program constants
InitialReconnectDelay == 5
max_reconnect_delay == 60

\* -------------------------------------------------------------- inputs
Callers == {"t1", "t2"}
SubCaller == "t1"
Pairs == {"B-BTC_USDT"}
Depths == {50}
Intervals == {"1m"}
\* The callables an application passes to the on_* methods.
Callbacks == {"cb1", "cb2"}
\* None, for an argument that is not given or an environment variable that
\* is not set.
Absent == "<None>"
\* Values of a credential argument or of its environment variable.
CredentialValues == {Absent, "", "key"}
EnvCredentialValues == {Absent, "", "envkey"}
\* Arguments of _make_request: method, endpoint, body (None is the empty body).
Methods == {"GET", "POST", "DELETE"}
Endpoints ==
    {"/exchange/v1/derivatives/futures/orders/cancel",
     "/exchange/v1/derivatives/futures/positions"}
Bodies == {<<>>, <<<<"id", <<"s", "o1">>>>>>}
\* Readings of time.time() in milliseconds.
Clock == {1000, 1001}
\* Candlestick resolutions of get_candlesticks.
Resolutions == {"1"}
\* Secrets and payloads handed to _generate_signature: the mapping
\* {a, timestamp} with either key inserted first.
Secrets == {"s", "secret"}
SignPayloads ==
    {<<<<"a", <<"n", v>>>>, <<"timestamp", <<"n", t>>>>>> : v \in {1, 2}, t \in Clock}
        \cup {<<<<"timestamp", <<"n", t>>>>, <<"a", <<"n", v>>>>>> : v \in {1, 2}, t \in Clock}
\* What the transport gives back for one HTTP request: a response with a
\* status and a body that is JSON or not, or no response at all.
HttpStatuses == {"200", "404", "500"}
TransportFailures == {"Timeout", "ConnectionError"}
Responses ==
    {[status |-> st, json |-> j] : st \in HttpStatuses, j \in BOOLEAN}
        \cup {[status |-> f, json |-> FALSE] : f \in TransportFailures}

VARIABLES
    api_key,          \* self.api_key
    secret_key,       \* self.secret_key
    sio,              \* self.sio is not None
    ws_connected,     \* self.ws_connected
    subscriptions,    \* self.subscriptions
    handlers,         \* handlers registered with sio.on, per event name
    transportUp,      \* sio.connected: the transport connection is live
    wire,             \* frames written to the live transport connection
    pingReady,        \* keepalive tasks about to evaluate `while self.ws_connected`
    pingSleeping,     \* keepalive tasks inside asyncio.sleep(25)
    call,             \* per caller: the client coroutine it is suspended in
    ret,              \* the most recently finished client call and its outcome
    preDrop,          \* history: <<subscriptions>> at the last remote close not yet followed by a connect
    loopPc,           \* example_websocket: the await it is suspended at
    reconnect_delay,  \* example_websocket: reconnect_delay
    failures,         \* history: consecutive connect_websocket calls that raised
    prevFailures,     \* history: value of `failures` when the last call returned
    loopLog,          \* example_websocket: lines printed since its last await
    instance,         \* the CoinDCXFutures object: "none", "alive", or "failed" (__init__ raised)
    environ,          \* os.environ: COINDCX_API_KEY and COINDCX_API_SECRET
    regLog,           \* history: the on_* calls made, in order
    dispatched,       \* the last inbound event handed to sio's handler, and what ran
    http,             \* the last REST call: requests sent, response, outcome
    signed            \* history: the last two _generate_signature calls, newest first

clientVars == <<api_key, secret_key, sio, ws_connected, subscriptions, handlers>>
transportVars == <<transportUp, wire>>
taskVars == <<pingReady, pingSleeping>>
callVars == <<call, ret>>
loopVars == <<loopPc, reconnect_delay, failures, prevFailures, loopLog>>
extVars == <<instance, environ, regLog, dispatched, http, signed>>
vars == <<clientVars, transportVars, taskVars, callVars, preDrop, loopVars, extVars>>

\* The delay the loop sets once connect_websocket has returned (line 381).
\* A loop that forgets the reset keeps the delay it had.
StaleReconnectDelay == reconnect_delay
ResetReconnectDelay == 5

\* ------------------------------------------------------------ helpers
Min(a, b) == IF a < b THEN a ELSE b

RECURSIVE JoinPairs(_)
\* "k":v,"k2":v2 in the insertion order of the mapping; a value is
\* <<"s", string>> or <<"n", integer>>.
JoinPairs(body) ==
    IF body = <<>> THEN ""
    ELSE LET kv == Head(body)
             v == IF kv[2][1] = "s" THEN "\"" \o kv[2][2] \o "\"" ELSE ToString(kv[2][2])
             one == "\"" \o kv[1] \o "\":" \o v
         IN IF Tail(body) = <<>> THEN one ELSE one \o "," \o JoinPairs(Tail(body))

\* json.dumps(body, separators=(',', ':'))
json_dumps(body) == "{" \o JoinPairs(body) \o "}"

\* A digest that depends on the secret only.
HmacOfSecretOnly(secret, msg) == "hmac[" \o secret \o "]"

\* hmac.new(secret, msg, sha256).hexdigest(), as a symbolic digest of both inputs.
HmacSha256Hex(secret, msg) == "hmac[" \o secret \o "|" \o msg \o "]"

_generate_signature(body) == HmacSha256Hex(secret_key, json_dumps(body))

OrderbookChannel(pair, depth) == pair \o "@orderbook@" \o ToString(depth) \o "-futures"
TradesChannel(pair) == pair \o "@trades-futures"
PricesChannel(pair) == pair \o "@prices-futures"
CandlestickChannel(pair, interval) == pair \o "_" \o interval \o "-futures"

AuthChannel == "coindcx"

MarketChannels ==
    {OrderbookChannel(p, d) : p \in Pairs, d \in Depths}
        \cup {TradesChannel(p) : p \in Pairs}
        \cup {PricesChannel(p) : p \in Pairs}
        \cup {CandlestickChannel(p, i) : p \in Pairs, i \in Intervals}

Channels == MarketChannels \cup {AuthChannel}

EventNames ==
    {"df-position-update", "df-order-update", "balance-update", "price-change",
     "new-trade", "depth-update", "candlestick"}

NoHandler == "none"

\* ------------------------------------------------------------- frames
JoinFrame(channel) ==
    [event |-> "join", channelName |-> channel, authSignature |-> "", apiKey |-> ""]

\* A join of the authenticated channel that carries no credentials.
UnsignedAuthJoinFrame == JoinFrame(AuthChannel)

\* The frame of _subscribe_authenticated_channel, lines 515-522.
AuthJoinFrame ==
    [event |-> "join", channelName |-> AuthChannel,
     authSignature |-> _generate_signature(<<<<"channel", <<"s", AuthChannel>>>>>>),
     apiKey |-> api_key]

LeaveFrame(channel) ==
    [event |-> "leave", channelName |-> channel, authSignature |-> "", apiKey |-> ""]

PingFrame ==
    [event |-> "ping", channelName |-> "", authSignature |-> "", apiKey |-> ""]

\* Channels for which a join frame is on the current connection's wire.
JoinedOn(w) == {w[i].channelName : i \in {j \in 1..Len(w) : w[j].event = "join"}}

Idle == [pc |-> "idle", ch |-> ""]
Returned(op) == [op |-> op, result |-> "returned"]
Raised(op) == [op |-> op, result |-> "raised"]

NoDispatch == [event |-> "", invoked |-> <<>>, escaped |-> FALSE]
NoResponse == [status |-> "", json |-> FALSE]
NoRequest == [call |-> "", sent |-> <<>>, response |-> NoResponse, result |-> ""]
NoEnviron == [COINDCX_API_KEY |-> Absent, COINDCX_API_SECRET |-> Absent]

\* --------------------------------------------------------------- Init
\* The state after CoinDCXFutures("key", "secret") has returned.
Init ==
    /\ api_key = "key"
    /\ secret_key = "secret"
    /\ sio = FALSE
    /\ ws_connected = FALSE
    /\ subscriptions = {}
    /\ handlers = [e \in EventNames |-> NoHandler]
    /\ transportUp = FALSE
    /\ wire = <<>>
    /\ pingReady = 0
    /\ pingSleeping = 0
    /\ call = [p \in Callers |-> Idle]
    /\ ret = [op |-> "none", result |-> "none"]
    /\ preDrop = <<>>
    /\ loopPc = "start"
    /\ reconnect_delay = InitialReconnectDelay
    /\ failures = 0
    /\ prevFailures = 0
    /\ loopLog = <<>>
    /\ instance = "alive"
    /\ environ = NoEnviron
    /\ regLog = <<>>
    /\ dispatched = NoDispatch
    /\ http = NoRequest
    /\ signed = <<>>

\* ------------------------------------------------------- construction
\* A test that takes only None for missing, and an empty string for a value.
IsNone(x) == x = Absent

\* Python truthiness of an optional string, as `or` and `not` apply it.
Falsy(x) == x \in {Absent, ""}

\* a or b
OrElse(a, b) == IF Falsy(a) THEN b ELSE a

\* No CoinDCXFutures object yet; the environment holds any of its values.
InitCtor ==
    /\ instance = "none"
    /\ environ \in [COINDCX_API_KEY : EnvCredentialValues,
                    COINDCX_API_SECRET : EnvCredentialValues]
    /\ api_key = Absent
    /\ secret_key = Absent
    /\ sio = FALSE
    /\ ws_connected = FALSE
    /\ subscriptions = {}
    /\ handlers = [e \in EventNames |-> NoHandler]
    /\ transportUp = FALSE
    /\ wire = <<>>
    /\ pingReady = 0
    /\ pingSleeping = 0
    /\ call = [p \in Callers |-> Idle]
    /\ ret = [op |-> "none", result |-> "none"]
    /\ preDrop = <<>>
    /\ loopPc = "start"
    /\ reconnect_delay = InitialReconnectDelay
    /\ failures = 0
    /\ prevFailures = 0
    /\ loopLog = <<>>
    /\ regLog = <<>>
    /\ dispatched = NoDispatch
    /\ http = NoRequest
    /\ signed = <<>>

\* CoinDCXFutures(key, secret), lines 88-112: the credentials fall back to
\* the environment, and the constructor raises ValueError when one of them
\* is still missing or empty; otherwise the object exists, not connected.
__init__(key, secret) ==
    /\ instance = "none"
    /\ LET k == OrElse(key, environ.COINDCX_API_KEY)
           sk == OrElse(secret, environ.COINDCX_API_SECRET)
       IN IF Falsy(k) \/ Falsy(sk)
          THEN /\ instance' = "failed"
               /\ UNCHANGED <<api_key, secret_key>>
          ELSE /\ instance' = "alive"
               /\ api_key' = k
               /\ secret_key' = sk
    /\ sio' = FALSE
    /\ ws_connected' = FALSE
    /\ subscriptions' = {}
    /\ UNCHANGED handlers
    /\ UNCHANGED <<transportVars, taskVars, callVars, preDrop, loopVars>>
    /\ UNCHANGED <<environ, regLog, dispatched, http, signed>>

\* ---------------------------------------------------------- signing
\* A client constructed with any of the secrets.
InitSign ==
    /\ api_key = "key"
    /\ secret_key \in Secrets
    /\ sio = FALSE
    /\ ws_connected = FALSE
    /\ subscriptions = {}
    /\ handlers = [e \in EventNames |-> NoHandler]
    /\ transportUp = FALSE
    /\ wire = <<>>
    /\ pingReady = 0
    /\ pingSleeping = 0
    /\ call = [p \in Callers |-> Idle]
    /\ ret = [op |-> "none", result |-> "none"]
    /\ preDrop = <<>>
    /\ loopPc = "start"
    /\ reconnect_delay = InitialReconnectDelay
    /\ failures = 0
    /\ prevFailures = 0
    /\ loopLog = <<>>
    /\ instance = "alive"
    /\ environ = NoEnviron
    /\ regLog = <<>>
    /\ dispatched = NoDispatch
    /\ http = NoRequest
    /\ signed = <<>>

\* One evaluation of self._generate_signature(payload), lines 114-119.
GenerateSignature(payload) ==
    /\ signed' = <<[secret |-> secret_key, payload |-> payload,
                    digest |-> _generate_signature(payload)]>>
                     \o SubSeq(signed, 1, Min(1, Len(signed)))
    /\ UNCHANGED <<clientVars, transportVars, taskVars, callVars, preDrop, loopVars>>
    /\ UNCHANGED <<instance, environ, regLog, dispatched, http>>

\* --------------------------------------------------------- REST calls
\* self.base_url: os.getenv('API_BASE_URL', 'https://api.coindcx.com').
base_url == "https://api.coindcx.com"

\* body['timestamp'] = int(round(time.time() * 1000)), line 137: a new key
\* goes last in the mapping.
WithTimestamp(body, now) == Append(body, <<"timestamp", <<"n", now>>>>)

_get_headers(signature) ==
    [ContentType |-> "application/json", XAuthApikey |-> api_key,
     XAuthSignature |-> signature]

NoHeaders == [ContentType |-> "", XAuthApikey |-> "", XAuthSignature |-> ""]

\* One HTTP request as the requests library transmits it; data is the body.
HttpRequest(method, url, headers, data) ==
    [method |-> method, url |-> url, headers |-> headers, data |-> data]

\* A dispatcher that sends the request again when the first try fails.
SendWithRetry(request, response) ==
    IF response.status = "200" THEN <<request>> ELSE <<request, request>>

\* requests.get / requests.post called once: one request is transmitted.
SendOnce(request, response) == <<request>>

\* response.raise_for_status() raises HTTPError for a 4xx or 5xx status.
RaisesForStatus(response) == response.status \in {"404", "500"}

\* requests.get / requests.post raise when there is no response, and
\* response.json() raises when the body is not JSON.
NoResult(response) == response.status \in TransportFailures \/ ~response.json

\* _make_request, lines 129-157.  An unsupported method raises ValueError
\* before anything is sent.
_make_request(method, endpoint, body, now, response) ==
    /\ LET stamped == WithTimestamp(body, now)
           headers == _get_headers(_generate_signature(stamped))
           url == base_url \o endpoint
           request == IF method = "GET"
                      THEN HttpRequest("GET", url, headers, "")
                      ELSE HttpRequest("POST", url, headers, json_dumps(stamped))
       IN http' =
             IF method \in {"GET", "POST"}
             THEN [call |-> "_make_request",
                   sent |-> SendOnce(request, response),
                   response |-> response,
                   result |-> IF RaisesForStatus(response) \/ NoResult(response)
                              THEN "raised" ELSE "returned"]
             ELSE [call |-> "_make_request", sent |-> <<>>,
                   response |-> NoResponse, result |-> "raised"]
    /\ UNCHANGED <<clientVars, transportVars, taskVars, callVars, preDrop, loopVars>>
    /\ UNCHANGED <<instance, environ, regLog, dispatched, signed>>

\* A public market-data method, lines 161-210: requests.get(url) and
\* `return response.json()`, with no look at the status.
PublicGet(name, url, response) ==
    /\ http' = [call |-> name,
                sent |-> SendOnce(HttpRequest("GET", url, NoHeaders, ""), response),
                response |-> response,
                result |-> IF NoResult(response) THEN "raised" ELSE "returned"]
    /\ UNCHANGED <<clientVars, transportVars, taskVars, callVars, preDrop, loopVars>>
    /\ UNCHANGED <<instance, environ, regLog, dispatched, signed>>

get_active_instruments(response) ==
    PublicGet("get_active_instruments",
              base_url \o "/exchange/v1/derivatives/futures/data/active_instruments",
              response)

get_instrument_details(pair, response) ==
    PublicGet("get_instrument_details",
              base_url \o "/exchange/v1/derivatives/futures/data/instrument?pair=" \o pair,
              response)

get_orderbook(pair, depth, response) ==
    PublicGet("get_orderbook",
              "https://public.coindcx.com/market_data/v3/orderbook/" \o pair
                  \o "-futures/" \o ToString(depth),
              response)

get_trades(pair, response) ==
    PublicGet("get_trades",
              base_url \o "/exchange/v1/derivatives/futures/data/trades?pair=" \o pair,
              response)

get_candlesticks(pair, resolution, from_time, to_time, response) ==
    PublicGet("get_candlesticks",
              "https://public.coindcx.com/market_data/candlesticks?pair=" \o pair
                  \o "&from=" \o ToString(from_time) \o "&to=" \o ToString(to_time)
                  \o "&resolution=" \o resolution \o "&pcode=f",
              response)

\* ------------------------------------------- client: effects on state
\* sio.connect() succeeded: lines 490-495, then the synchronous part of
\* _subscribe_authenticated_channel up to its emit (lines 515-522).
\* `sent` is whether that emit wrote the frame or raised.
HandshakeSucceeded(sent) ==
    /\ pingReady + pingSleeping < MaxTasks
    /\ transportUp' = TRUE
    /\ ws_connected' = TRUE
    /\ pingReady' = pingReady + 1
    /\ wire' = IF sent THEN <<AuthJoinFrame>> ELSE <<>>
    /\ preDrop' = <<>>
    /\ UNCHANGED <<api_key, secret_key, sio, subscriptions, handlers, pingSleeping>>

\* The emit of the authenticated join returned: line 524.
AuthJoinSent == subscriptions' = subscriptions \cup {AuthChannel}

\* A disconnect that closes the transport and forgets line 571.
TransportClosedFlagKept ==
    /\ transportUp' = FALSE
    /\ wire' = <<>>
    /\ UNCHANGED <<api_key, secret_key, sio, ws_connected, subscriptions, handlers>>

\* sio.disconnect() returned: line 571.
TransportClosed ==
    /\ transportUp' = FALSE
    /\ ws_connected' = FALSE
    /\ wire' = <<>>
    /\ UNCHANGED <<api_key, secret_key, sio, subscriptions, handlers>>

\* The guard of disconnect_websocket, line 569.
MustDisconnect == sio /\ ws_connected

\* A connect_websocket that connects whatever the flag says.
MustConnectAlways == TRUE

\* The guard of connect_websocket, line 481.
MustConnect == ~ws_connected

\* connect_websocket's except block (lines 500-502) logs and re-raises.
\* A block without the `raise` would return normally.
ConnectFailureSwallowed == Returned("connect_websocket")
ConnectFailure == Raised("connect_websocket")

\* --------------------------------------------- client calls by a caller
connect_websocket(p) ==
    /\ call[p] = Idle
    /\ sio' = TRUE
    /\ IF MustConnect
       THEN /\ call' = [call EXCEPT ![p] = [pc |-> "connecting", ch |-> ""]]
            /\ UNCHANGED ret
       ELSE /\ ret' = Returned("connect_websocket")
            /\ UNCHANGED call
    /\ UNCHANGED <<api_key, secret_key, ws_connected, subscriptions, handlers>>
    /\ UNCHANGED <<transportVars, taskVars, preDrop, loopVars, extVars>>

ConnectHandshake(p) ==
    /\ call[p].pc = "connecting"
    /\ \E ok \in BOOLEAN, sent \in BOOLEAN :
          IF ok /\ ~transportUp
          THEN /\ HandshakeSucceeded(sent)
               /\ IF sent
                  THEN /\ call' = [call EXCEPT ![p] = [pc |-> "authjoin", ch |-> ""]]
                       /\ UNCHANGED ret
                  ELSE /\ call' = [call EXCEPT ![p] = Idle]
                       /\ ret' = ConnectFailure
          ELSE /\ sent
               /\ call' = [call EXCEPT ![p] = Idle]
               /\ ret' = ConnectFailure
               /\ UNCHANGED <<clientVars, transportVars, taskVars, preDrop>>
    /\ UNCHANGED <<loopVars, extVars>>

ConnectAuthJoined(p) ==
    /\ call[p].pc = "authjoin"
    /\ AuthJoinSent
    /\ call' = [call EXCEPT ![p] = Idle]
    /\ ret' = Returned("connect_websocket")
    /\ UNCHANGED <<api_key, secret_key, sio, ws_connected, handlers>>
    /\ UNCHANGED <<transportVars, taskVars, preDrop, loopVars, extVars>>

disconnect_websocket(p) ==
    /\ call[p] = Idle
    /\ IF MustDisconnect
       THEN /\ call' = [call EXCEPT ![p] = [pc |-> "disconnecting", ch |-> ""]]
            /\ UNCHANGED ret
       ELSE /\ ret' = Returned("disconnect_websocket")
            /\ UNCHANGED call
    /\ UNCHANGED <<clientVars, transportVars, taskVars, preDrop, loopVars, extVars>>

DisconnectReturned(p) ==
    /\ call[p].pc = "disconnecting"
    /\ TransportClosed
    /\ call' = [call EXCEPT ![p] = Idle]
    /\ ret' = Returned("disconnect_websocket")
    /\ UNCHANGED <<taskVars, preDrop, loopVars, extVars>>

\* An emit whose frame overtakes the frames written before it.
EmitFromPrepend(p, op, frame, pc, channel) ==
    /\ call[p] = Idle
    /\ Len(wire) < MaxFrames
    /\ \E ok \in BOOLEAN :
          IF sio /\ transportUp /\ ok
          THEN /\ wire' = <<frame>> \o wire
               /\ call' = [call EXCEPT ![p] = [pc |-> pc, ch |-> channel]]
               /\ UNCHANGED ret
          ELSE /\ ret' = Raised(op)
               /\ UNCHANGED <<wire, call>>
    /\ UNCHANGED <<clientVars, transportUp, taskVars, preDrop, loopVars, extVars>>

\* An emit that never raises: without a live transport the frame is lost
\* and the caller carries on as if it had been written.
EmitFromUnchecked(p, op, frame, pc, channel) ==
    /\ call[p] = Idle
    /\ Len(wire) < MaxFrames
    /\ wire' = IF sio /\ transportUp THEN Append(wire, frame) ELSE wire
    /\ call' = [call EXCEPT ![p] = [pc |-> pc, ch |-> channel]]
    /\ UNCHANGED ret
    /\ UNCHANGED <<clientVars, transportUp, taskVars, preDrop, loopVars, extVars>>

\* await self.sio.emit(event, frame) from a caller: the frame is written and
\* the caller suspends in state `pc`, or the emit raises out of method `op`
\* (self.sio is None, the transport is closed, or the send fails).
EmitFrom(p, op, frame, pc, channel) ==
    /\ call[p] = Idle
    /\ Len(wire) < MaxFrames
    /\ \E ok \in BOOLEAN :
          IF sio /\ transportUp /\ ok
          THEN /\ wire' = Append(wire, frame)
               /\ call' = [call EXCEPT ![p] = [pc |-> pc, ch |-> channel]]
               /\ UNCHANGED ret
          ELSE /\ ret' = Raised(op)
               /\ UNCHANGED <<wire, call>>
    /\ UNCHANGED <<clientVars, transportUp, taskVars, preDrop, loopVars, extVars>>

subscribe_orderbook(p, pair, depth) ==
    EmitFrom(p, "subscribe", JoinFrame(OrderbookChannel(pair, depth)),
             "joining", OrderbookChannel(pair, depth))

subscribe_trades(p, pair) ==
    EmitFrom(p, "subscribe", JoinFrame(TradesChannel(pair)),
             "joining", TradesChannel(pair))

subscribe_prices(p, pair) ==
    EmitFrom(p, "subscribe", JoinFrame(PricesChannel(pair)),
             "joining", PricesChannel(pair))

subscribe_candlesticks(p, pair, interval) ==
    EmitFrom(p, "subscribe", JoinFrame(CandlestickChannel(pair, interval)),
             "joining", CandlestickChannel(pair, interval))

\* The emit of a join returned: self.subscriptions.add(channel).
SubscribeReturned(p) ==
    /\ call[p].pc = "joining"
    /\ subscriptions' = subscriptions \cup {call[p].ch}
    /\ call' = [call EXCEPT ![p] = Idle]
    /\ ret' = Returned("subscribe")
    /\ UNCHANGED <<api_key, secret_key, sio, ws_connected, handlers>>
    /\ UNCHANGED <<transportVars, taskVars, preDrop, loopVars, extVars>>

unsubscribe(p, channel) ==
    EmitFrom(p, "unsubscribe", LeaveFrame(channel), "leaving", channel)

\* A leave whose emit returned but that forgets the discard of line 564.
UnsubscribeReturnedKept(p) ==
    /\ call[p].pc = "leaving"
    /\ call' = [call EXCEPT ![p] = Idle]
    /\ ret' = Returned("unsubscribe")
    /\ UNCHANGED <<clientVars, transportVars, taskVars, preDrop, loopVars, extVars>>

\* The emit of a leave returned: self.subscriptions.discard(channel).
UnsubscribeReturned(p) ==
    /\ call[p].pc = "leaving"
    /\ subscriptions' = subscriptions \ {call[p].ch}
    /\ call' = [call EXCEPT ![p] = Idle]
    /\ ret' = Returned("unsubscribe")
    /\ UNCHANGED <<api_key, secret_key, sio, ws_connected, handlers>>
    /\ UNCHANGED <<transportVars, taskVars, preDrop, loopVars, extVars>>

\* ------------------------------------------------------ keepalive task
\* `while self.ws_connected:` evaluated by a task: it goes to sleep or ends.
PingLoopTest ==
    /\ pingReady > 0
    /\ IF ws_connected
       THEN /\ pingReady' = pingReady - 1
            /\ pingSleeping' = pingSleeping + 1
       ELSE /\ pingReady' = pingReady - 1
            /\ UNCHANGED pingSleeping
    /\ UNCHANGED <<clientVars, transportVars, callVars, preDrop, loopVars, extVars>>

\* asyncio.sleep(25) is over: the task emits the ping (the frame is written,
\* or the emit raises and the error is logged) and returns to the loop test.
PingEmit ==
    /\ pingSleeping > 0
    /\ Len(wire) < MaxFrames
    /\ \E ok \in BOOLEAN :
          wire' = IF transportUp /\ ok THEN Append(wire, PingFrame) ELSE wire
    /\ pingSleeping' = pingSleeping - 1
    /\ pingReady' = pingReady + 1
    /\ UNCHANGED <<clientVars, transportUp, callVars, preDrop, loopVars, extVars>>

\* ------------------------------------------------------------ transport
\* The server or the network closes the live transport connection.  The
\* client registers no disconnect handler, so none of its state changes.
Drop ==
    /\ transportUp
    /\ transportUp' = FALSE
    /\ preDrop' = <<subscriptions>>
    /\ wire' = <<>>
    /\ UNCHANGED <<clientVars, taskVars, callVars, loopVars, extVars>>

\* ------------------------------------------------------ event handlers
\* An on_* method, lines 576-623: under `if self.sio`, @self.sio.on(event)
\* stores a wrapper of the callback as the handler of the event, in the
\* place of any handler stored for it before; without a sio object the
\* method does nothing.  regLog records the call and whether sio existed.
Register(event, callback) ==
    /\ Len(regLog) < MaxRegistrations
    /\ handlers' = IF sio THEN [handlers EXCEPT ![event] = callback] ELSE handlers
    /\ regLog' = Append(regLog, [event |-> event, callback |-> callback, sio |-> sio])
    /\ UNCHANGED <<api_key, secret_key, sio, ws_connected, subscriptions>>
    /\ UNCHANGED <<transportVars, taskVars, callVars, preDrop, loopVars>>
    /\ UNCHANGED <<instance, environ, dispatched, http, signed>>

on_position_update(callback) == Register("df-position-update", callback)
on_order_update(callback) == Register("df-order-update", callback)
on_balance_update(callback) == Register("balance-update", callback)
on_price_change(callback) == Register("price-change", callback)
on_new_trade(callback) == Register("new-trade", callback)
on_depth_update(callback) == Register("depth-update", callback)
on_candlestick(callback) == Register("candlestick", callback)

\* The wrapper `async def handle_...(data): await callback(data)`: it runs
\* the callback, and whatever the callback raises leaves the wrapper.
HandlerWrapper(event, callback, raises) ==
    [event |-> event, invoked |-> <<callback>>, escaped |-> raises]

\* An event arrives on the live transport and sio runs the handler stored
\* for its name, if any; the callback returns or raises.
Dispatch(event) ==
    /\ transportUp
    /\ \E raises \in BOOLEAN :
          dispatched' =
              IF handlers[event] = NoHandler
              THEN [event |-> event, invoked |-> <<>>, escaped |-> FALSE]
              ELSE HandlerWrapper(event, handlers[event], raises)
    /\ UNCHANGED <<clientVars, transportVars, taskVars, callVars, preDrop, loopVars>>
    /\ UNCHANGED <<instance, environ, regLog, http, signed>>

\* ------------------------------------------- example_websocket's loop
\* client.on_order_update / on_balance_update / on_position_update with the
\* three callbacks of example_websocket; each registers under `if self.sio`.
RegisterCallbacks ==
    handlers' = IF sio'
                THEN [handlers EXCEPT !["df-order-update"] = "on_order_update",
                                      !["balance-update"] = "on_balance_update",
                                      !["df-position-update"] = "on_position_update"]
                ELSE handlers

\* A doubling without the cap of line 420.
NextReconnectDelayUncapped(d) == d * 2

\* reconnect_delay = min(reconnect_delay * 2, max_reconnect_delay)
NextReconnectDelay(d) == Min(d * 2, max_reconnect_delay)

\* connect_websocket returned to the loop: lines 377-397, up to the sleep
\* of the monitoring loop.  `log` is what the step printed before.
LoopConnected(log) ==
    /\ reconnect_delay' = ResetReconnectDelay
    /\ RegisterCallbacks
    /\ loopLog' = log \o <<"Connected">>
    /\ prevFailures' = failures
    /\ failures' = 0
    /\ loopPc' = "monitor"

\* connect_websocket raised into the loop: lines 408-419, up to the await
\* inside disconnect_websocket or, when that returns at once, the backoff
\* sleep.
LoopFailed ==
    /\ failures < MaxFailures
    /\ failures' = failures + 1
    /\ loopLog' = <<"Error">>
    /\ loopPc' = IF MustDisconnect' THEN "closing" ELSE "backoff"
    /\ UNCHANGED <<reconnect_delay, prevFailures>>

\* The top of `while True` (line 371) with reconnect_delay = d: the loop
\* calls connect_websocket, which awaits the handshake or returns at once.
LoopTop(d, log) ==
    /\ sio' = TRUE
    /\ IF MustConnect
       THEN /\ loopPc' = "connecting"
            /\ reconnect_delay' = d
            /\ loopLog' = log \o <<"Connecting">>
            /\ UNCHANGED <<handlers, failures, prevFailures>>
       ELSE LoopConnected(log \o <<"Connecting">>)
    /\ UNCHANGED <<api_key, secret_key, ws_connected, subscriptions>>
    /\ UNCHANGED <<transportVars, taskVars, callVars, preDrop, extVars>>

LoopStart ==
    /\ loopPc = "start"
    /\ LoopTop(reconnect_delay, <<>>)

LoopHandshake ==
    /\ loopPc = "connecting"
    /\ \E ok \in BOOLEAN, sent \in BOOLEAN :
          IF ok /\ ~transportUp
          THEN /\ HandshakeSucceeded(sent)
               /\ IF sent
                  THEN /\ loopPc' = "authjoin"
                       /\ loopLog' = <<>>
                       /\ UNCHANGED <<reconnect_delay, failures, prevFailures>>
                  ELSE LoopFailed
          ELSE /\ sent
               /\ UNCHANGED <<clientVars, transportVars, taskVars, preDrop>>
               /\ LoopFailed
    /\ UNCHANGED <<callVars, extVars>>

LoopAuthJoined ==
    /\ loopPc = "authjoin"
    /\ AuthJoinSent
    /\ UNCHANGED <<api_key, secret_key, sio, ws_connected>>
    /\ LoopConnected(<<>>)
    /\ UNCHANGED <<transportVars, taskVars, callVars, preDrop, extVars>>

\* sio.disconnect() returned inside the except block: line 571, then the
\* backoff sleep of line 419 starts.
LoopClosed ==
    /\ loopPc = "closing"
    /\ TransportClosed
    /\ loopPc' = "backoff"
    /\ loopLog' = <<>>
    /\ UNCHANGED <<reconnect_delay, failures, prevFailures>>
    /\ UNCHANGED <<taskVars, callVars, preDrop, extVars>>

\* asyncio.sleep(reconnect_delay) is over: line 420, then the loop top.
LoopBackoffOver ==
    /\ loopPc = "backoff"
    /\ LoopTop(NextReconnectDelay(reconnect_delay), <<>>)

\* asyncio.sleep(30) is over: lines 400-406.  A lost connection breaks out
\* of the monitoring loop and falls through to the loop top in the same step.
LoopMonitorTick ==
    /\ loopPc = "monitor"
    /\ IF ~sio \/ ~transportUp
       THEN LoopTop(reconnect_delay, <<"Connection lost">>)
       ELSE /\ loopLog' = <<"Heartbeat">>
            /\ UNCHANGED <<loopPc, reconnect_delay, failures, prevFailures>>
            /\ UNCHANGED <<clientVars, transportVars, taskVars, callVars, preDrop, extVars>>

NextLoop ==
    \/ LoopStart
    \/ LoopHandshake
    \/ LoopAuthJoined
    \/ LoopClosed
    \/ LoopBackoffOver
    \/ LoopMonitorTick
    \/ PingLoopTest
    \/ PingEmit
    \/ Drop

SpecLoop == Init /\ [][NextLoop]_vars

\* The event loop resumes every coroutine whose await is over, so each step
\* of the loop and of the keepalive tasks is taken once it stays possible.
\* Nothing obliges the remote end to close the transport.
SpecLoopFair ==
    /\ Init
    /\ [][NextLoop]_vars
    /\ WF_vars(LoopStart)
    /\ WF_vars(LoopHandshake)
    /\ WF_vars(LoopAuthJoined)
    /\ WF_vars(LoopClosed)
    /\ WF_vars(LoopBackoffOver)
    /\ WF_vars(LoopMonitorTick)
    /\ WF_vars(PingLoopTest)
    /\ WF_vars(PingEmit)

\* ------------------------------------- the connection under its callers
\* connect_websocket and disconnect_websocket called from concurrent tasks,
\* the keepalive tasks, and the remote end closing the transport.  The
\* subscribe and unsubscribe calls neither read nor write ws_connected, the
\* transport state or the keepalive tasks; they are taken under SpecSub.
Next ==
    \/ \E p \in Callers : connect_websocket(p)
    \/ \E p \in Callers : ConnectHandshake(p)
    \/ \E p \in Callers : ConnectAuthJoined(p)
    \/ \E p \in Callers : disconnect_websocket(p)
    \/ \E p \in Callers : DisconnectReturned(p)
    \/ PingLoopTest
    \/ PingEmit
    \/ Drop

Spec == Init /\ [][Next]_vars

\* ----------------------------------- the subscriptions under one caller
\* One task that connects, subscribes, unsubscribes and disconnects in any
\* order, and the remote end closing the transport.
NextSub ==
    \/ connect_websocket(SubCaller)
    \/ ConnectHandshake(SubCaller)
    \/ ConnectAuthJoined(SubCaller)
    \/ disconnect_websocket(SubCaller)
    \/ DisconnectReturned(SubCaller)
    \/ \E pair \in Pairs, depth \in Depths : subscribe_orderbook(SubCaller, pair, depth)
    \/ \E pair \in Pairs : subscribe_trades(SubCaller, pair)
    \/ \E pair \in Pairs : subscribe_prices(SubCaller, pair)
    \/ \E pair \in Pairs, interval \in Intervals :
          subscribe_candlesticks(SubCaller, pair, interval)
    \/ SubscribeReturned(SubCaller)
    \/ \E channel \in Channels : unsubscribe(SubCaller, channel)
    \/ UnsubscribeReturned(SubCaller)
    \/ Drop

SpecSub == Init /\ [][NextSub]_vars

\* ------------------------------------------- the one-shot REST calls
NextRest ==
    \/ \E method \in Methods, endpoint \in Endpoints, body \in Bodies,
          now \in Clock, response \in Responses :
          _make_request(method, endpoint, body, now, response)
    \/ \E response \in Responses : get_active_instruments(response)
    \/ \E pair \in Pairs, response \in Responses : get_instrument_details(pair, response)
    \/ \E pair \in Pairs, depth \in Depths, response \in Responses :
          get_orderbook(pair, depth, response)
    \/ \E pair \in Pairs, response \in Responses : get_trades(pair, response)
    \/ \E pair \in Pairs, resolution \in Resolutions, from_time \in Clock,
          to_time \in Clock, response \in Responses :
          get_candlesticks(pair, resolution, from_time, to_time, response)

SpecRest == Init /\ [][NextRest]_vars

\* --------------------------- one caller's frames and the keepalive's
\* One task that connects, disconnects, and subscribes to and unsubscribes
\* from the trades channel of one pair, the keepalive tasks running between
\* its steps, and the remote end closing the transport.
NextFrames ==
    \/ connect_websocket(SubCaller)
    \/ ConnectHandshake(SubCaller)
    \/ ConnectAuthJoined(SubCaller)
    \/ disconnect_websocket(SubCaller)
    \/ DisconnectReturned(SubCaller)
    \/ \E pair \in Pairs : subscribe_trades(SubCaller, pair)
    \/ SubscribeReturned(SubCaller)
    \/ \E pair \in Pairs : unsubscribe(SubCaller, TradesChannel(pair))
    \/ UnsubscribeReturned(SubCaller)
    \/ PingLoopTest
    \/ PingEmit
    \/ Drop

SpecFrames == Init /\ [][NextFrames]_vars

\* ------------------------------------------------ the signature alone
NextSign == \E payload \in SignPayloads : GenerateSignature(payload)

SpecSign == InitSign /\ [][NextSign]_vars

\* ---------------------------------- the client from its construction
\* The constructor called with any arguments under any environment and,
\* on the object it leaves, connects, disconnects and authenticated calls
\* (here of one endpoint, with no body, at one time).
NextCtor ==
    \/ \E key \in CredentialValues, secret \in CredentialValues : __init__(key, secret)
    \/ instance = "alive" /\ connect_websocket(SubCaller)
    \/ instance = "alive" /\ ConnectHandshake(SubCaller)
    \/ instance = "alive" /\ ConnectAuthJoined(SubCaller)
    \/ instance = "alive" /\ disconnect_websocket(SubCaller)
    \/ instance = "alive" /\ DisconnectReturned(SubCaller)
    \/ /\ instance = "alive"
       /\ \E method \in Methods, response \in Responses :
             _make_request(method, "/exchange/v1/derivatives/futures/positions",
                           <<>>, 1000, response)

SpecCtor == InitCtor /\ [][NextCtor]_vars

\* ------------------------------------- the handlers under one caller
\* One task that connects and disconnects and registers callbacks in any
\* order, and events arriving from the server.
NextRouter ==
    \/ connect_websocket(SubCaller)
    \/ ConnectHandshake(SubCaller)
    \/ ConnectAuthJoined(SubCaller)
    \/ disconnect_websocket(SubCaller)
    \/ DisconnectReturned(SubCaller)
    \/ \E callback \in Callbacks : on_position_update(callback)
    \/ \E callback \in Callbacks : on_order_update(callback)
    \/ \E callback \in Callbacks : on_balance_update(callback)
    \/ \E callback \in Callbacks : on_price_change(callback)
    \/ \E callback \in Callbacks : on_new_trade(callback)
    \/ \E callback \in Callbacks : on_depth_update(callback)
    \/ \E callback \in Callbacks : on_candlestick(callback)
    \/ \E event \in EventNames : Dispatch(event)

SpecRouter == Init /\ [][NextRouter]_vars

\* ------------------------- one channel under two concurrent callers
\* Two tasks that connect, and subscribe to and unsubscribe from the trades
\* channel of one pair; each call may be suspended in its emit while the
\* other task runs.
NextRace ==
    \/ \E p \in Callers : connect_websocket(p)
    \/ \E p \in Callers : ConnectHandshake(p)
    \/ \E p \in Callers : ConnectAuthJoined(p)
    \/ \E p \in Callers, pair \in Pairs : subscribe_trades(p, pair)
    \/ \E p \in Callers : SubscribeReturned(p)
    \/ \E p \in Callers, pair \in Pairs : unsubscribe(p, TradesChannel(pair))
    \/ \E p \in Callers : UnsubscribeReturned(p)

SpecRace == Init /\ [][NextRace]_vars

\* ==================================================================
\* Claims
\* ==================================================================

\* C1: after a connection drop followed by a reconnect, a join is re-issued
\* on the new connection for every channel that was in the subscription set
\* immediately before the drop, and for no other channel.  All frames that
\* connect_websocket issues are written in the step in which the handshake
\* succeeds.  Stated leniently: only for a reconnect whose frames were
\* written, and allowing the authenticated channel, which every connect
\* joins, also when it was not in the set.
C1_Claim ==
    [][(~transportUp /\ transportUp' /\ preDrop # <<>> /\ wire' # <<>>)
          => /\ preDrop[1] \subseteq JoinedOn(wire')
             /\ JoinedOn(wire') \subseteq preDrop[1] \cup {AuthChannel}]_vars

\* C2: the delay waited after the k-th consecutive failed connect attempt is
\* min(5 * 2^(k-1), 60) seconds.
C2_BackoffSequence ==
    loopPc = "backoff" =>
        /\ failures >= 1
        /\ reconnect_delay = Min(5 * 2 ^ (failures - 1), 60)

C2_Witness == loopPc = "backoff" /\ failures = 6 /\ reconnect_delay = 60

\* C3: the backoff delay is 5 seconds again as soon as connect_websocket has
\* returned, however many failures preceded, and a first failure is followed
\* by a 5-second delay.
C3_ResetOnSuccess ==
    /\ loopPc = "monitor" => reconnect_delay = 5
    /\ (loopPc = "backoff" /\ failures = 1) => reconnect_delay = 5

C3_Witness == loopPc = "monitor" /\ prevFailures >= 3 /\ reconnect_delay = 5

\* C4: a keepalive task emits a ping only while the connected flag is true,
\* also when it was already sleeping when the disconnect happened.
C4_Claim == [][pingSleeping' < pingSleeping => ws_connected]_vars

\* C5: when a disconnect_websocket call that closed the transport returns,
\* no keepalive task is alive.
C5_Claim ==
    [][(\E p \in Callers : call[p].pc = "disconnecting" /\ call'[p] = Idle)
          => pingReady' + pingSleeping' = 0]_vars

\* C6: the connected flag is never true while the transport is closed.
C6_Claim == ws_connected => transportUp

\* C7: whenever the live transport is lost, the client is eventually
\* connected with a live transport again.
C7_Claim == (preDrop # <<>>) ~> (transportUp /\ ws_connected)

\* C8: the loop never calls connect_websocket in the step in which it has
\* detected the lost connection, that is, without a backoff sleep between.
C8_Claim ==
    \A i, j \in 1..Len(loopLog) :
        (i < j /\ loopLog[i] = "Connection lost") => loopLog[j] # "Connecting"

\* A step in which caller p's sio.connect() fails: the call ends and no
\* keepalive task was started.
HandshakeFailedStep(p) ==
    /\ call[p].pc = "connecting"
    /\ call'[p] = Idle
    /\ pingReady' = pingReady

\* C9 as stated: a failed handshake does not reach the caller as a raised
\* exception.
C9_Claim ==
    [][\A p \in Callers : HandshakeFailedStep(p) => ret'.result # "raised"]_vars

\* C9 as amended: a failed handshake reaches the caller of connect_websocket
\* as a raised exception and leaves the connection state as it was.
C9_HandshakeFailureRaised ==
    [][\A p \in Callers :
          HandshakeFailedStep(p) =>
              /\ ret' = Raised("connect_websocket")
              /\ UNCHANGED <<ws_connected, transportUp, wire, subscriptions, taskVars>>]_vars

C9_Witness == ret = Raised("connect_websocket") /\ ~ws_connected /\ ~transportUp

\* C10: a disconnect_websocket call that returns leaves the connected flag
\* false and the transport closed; it closes the transport only when the
\* flag is true, and otherwise returns at once having changed nothing.
C10_DisconnectLeavesDisconnected ==
    [][/\ \A p \in Callers :
             /\ (call[p].pc = "disconnecting" /\ call'[p] = Idle)
                    => (~ws_connected' /\ ~transportUp')
             /\ (call[p] = Idle /\ call'[p].pc = "disconnecting") => ws_connected
       /\ (call' = call /\ ret' # ret /\ ret' = Returned("disconnect_websocket"))
              => /\ ~ws_connected /\ ~transportUp
                 /\ UNCHANGED <<clientVars, transportVars, taskVars>>]_vars

C10_Witness ==
    /\ ret = Returned("disconnect_websocket")
    /\ ~ws_connected /\ ~transportUp
    /\ pingSleeping > 0

\* C11: a subscribe or unsubscribe call goes through only while the client
\* is connected over a live transport; one that is made otherwise, or whose
\* send fails, raises and leaves the subscription set (and the wire) exactly
\* as it was: nothing is added by a failed join or removed by a failed leave.
C11_FailedJoinLeaveKeepsSet ==
    [][/\ (call[SubCaller] = Idle /\ call'[SubCaller].pc \in {"joining", "leaving"})
              => (sio /\ ws_connected /\ transportUp)
       /\ (call[SubCaller] = Idle /\ call'[SubCaller] = Idle /\ ret' # ret
              /\ ret'.op \in {"subscribe", "unsubscribe"})
              => /\ ret'.result = "raised"
                 /\ UNCHANGED <<subscriptions, wire>>]_vars

C11_Witness ==
    /\ ret = Raised("subscribe")
    /\ ~ws_connected
    /\ subscriptions = {AuthChannel}

\* C12: an unsubscribe of c that returns leaves the set without c and
\* otherwise as it was (so unchanged when c was not a member); a subscribe
\* of c writes a join frame for c also when c is already a member, and when
\* it returns the set is the old set with c in it, once.
C12_SubscribeUnsubscribeAlgebra ==
    [][/\ (call[SubCaller].pc = "leaving" /\ call'[SubCaller] = Idle)
              => /\ subscriptions' = subscriptions \ {call[SubCaller].ch}
                 /\ (call[SubCaller].ch \notin subscriptions => subscriptions' = subscriptions)
       /\ (call[SubCaller].pc = "joining" /\ call'[SubCaller] = Idle)
              => /\ subscriptions' = subscriptions \cup {call[SubCaller].ch}
                 /\ Cardinality(subscriptions') =
                        Cardinality(subscriptions \ {call[SubCaller].ch}) + 1
       /\ (call[SubCaller] = Idle /\ call'[SubCaller].pc = "joining")
              => /\ Len(wire') = Len(wire) + 1
                 /\ wire'[Len(wire')].event = "join"
                 /\ wire'[Len(wire')].channelName = call'[SubCaller].ch]_vars

\* A channel joined twice on one connection and a member once.
C12_Witness ==
    /\ ret = Returned("subscribe")
    /\ call[SubCaller] = Idle
    /\ \E c \in MarketChannels :
          /\ subscriptions = {AuthChannel, c}
          /\ wire = <<AuthJoinFrame, JoinFrame(c), JoinFrame(c)>>

\* The event of the last frame written for channel c on wire w.
LastEventFor(w, c) ==
    LET idx == {i \in 1..Len(w) : w[i].channelName = c}
    IN IF idx = {} THEN "none"
       ELSE w[CHOOSE i \in idx : \A j \in idx : j <= i].event

\* C13: whenever no subscribe or unsubscribe call is suspended in its emit,
\* a market channel for which a frame was written on the live connection is
\* a member of the subscription set if and only if the last frame written
\* for it is a join.
C13_Claim ==
    (\A p \in Callers : call[p].pc \notin {"joining", "leaving"})
        => \A c \in MarketChannels :
              LastEventFor(wire, c) # "none"
                  => (c \in subscriptions <=> LastEventFor(wire, c) = "join")

RECURSIVE RegisteredFor(_, _)
RegisteredFor(log, e) ==
    IF log = <<>> THEN <<>>
    ELSE IF Head(log).event = e
         THEN <<Head(log).callback>> \o RegisteredFor(Tail(log), e)
         ELSE RegisteredFor(Tail(log), e)

\* An event of name e is handed to the handlers in this step.
DispatchStep(e) == dispatched' # dispatched /\ dispatched'.event = e

\* C15: when two different handlers have been registered for one event
\* name, both while the socket client object existed, one inbound event of
\* that name invokes both, once each, in the order of their registration.
C15_Claim ==
    [][\A e \in EventNames :
          (/\ DispatchStep(e)
           /\ Len(RegisteredFor(regLog, e)) = 2
           /\ RegisteredFor(regLog, e)[1] # RegisteredFor(regLog, e)[2]
           /\ \A i \in 1..Len(regLog) : regLog[i].sio)
              => dispatched'.invoked = RegisteredFor(regLog, e)]_vars

\* C16: no dispatch lets an exception raised by a handler leave the
\* handler's wrapper.
C16_Claim == ~dispatched.escaped

\* C17: the handler registered last for an event name is invoked for an
\* event of that name received afterwards, whatever the connection state
\* was when it was registered.
C17_Claim ==
    [][\A e \in EventNames :
          (DispatchStep(e) /\ RegisteredFor(regLog, e) # <<>>)
              => \E i \in 1..Len(dispatched'.invoked) :
                    dispatched'.invoked[i] =
                        RegisteredFor(regLog, e)[Len(RegisteredFor(regLog, e))]]_vars

\* C18: a client object exists only with a non-empty key and a non-empty
\* secret: the constructor called without one of them (argument and
\* environment variable both missing or empty) raises and leaves no
\* object, and no operation on the object changes its credentials.
C18_NoClientWithoutCredentials ==
    /\ [](instance = "alive" =>
             /\ api_key \notin {Absent, ""}
             /\ secret_key \notin {Absent, ""})
    /\ [][/\ (instance = "none" /\ instance' # "none")
                => (instance' = "alive" \/ UNCHANGED <<api_key, secret_key>>)
          /\ instance = "failed" => instance' = "failed"
          /\ instance = "alive" => UNCHANGED <<instance, api_key, secret_key>>]_vars

\* An object whose key came from the environment, the key argument being
\* empty, and which has signed an authenticated request and a join.
C18_Witness ==
    /\ instance = "alive"
    /\ api_key = "envkey" /\ secret_key = "key"
    /\ environ.COINDCX_API_SECRET = ""
    /\ http.result = "returned"
    /\ ws_connected

\* C19: a _make_request call transmits at most one HTTP request, and on an
\* error status, a timeout or a connection failure it has transmitted one
\* request and raises.
C19_AtMostOneRequest ==
    http.call = "_make_request" =>
        /\ Len(http.sent) <= 1
        /\ http.response.status \in {"404", "500", "Timeout", "ConnectionError"}
               => (http.result = "raised" /\ Len(http.sent) = 1)

C19_Witness ==
    /\ http.call = "_make_request"
    /\ http.response.status = "500"
    /\ http.result = "raised"
    /\ Len(http.sent) = 1
    /\ http.sent[1].method = "POST"

\* C20: no REST call, public or authenticated, returns normally for a
\* response with an error status.
C20_Claim == http.response.status \in {"404", "500"} => http.result = "raised"

\* C21: every request that _make_request transmits, by POST or by GET,
\* carries in X-AUTH-SIGNATURE the signature of exactly the body bytes
\* transmitted with it.
C21_Claim ==
    http.call = "_make_request" =>
        \A i \in 1..Len(http.sent) :
            http.sent[i].headers.XAuthSignature =
                HmacSha256Hex(secret_key, http.sent[i].data)

\* The mapping a body stands for: its keys with their values, whatever the
\* order of insertion.
AsMapping(body) == {body[i] : i \in 1..Len(body)}

\* C22: two bodies with the same keys and values get the same signature,
\* in whatever order their keys were inserted.
C22_Claim ==
    \A i, j \in 1..Len(signed) :
        AsMapping(signed[i].payload) = AsMapping(signed[j].payload)
            => signed[i].digest = signed[j].digest

C25_Claim ==
    (pingSleeping >= 1 /\ AuthChannel \in subscriptions)
        => pingReady + pingSleeping <= 1

\* C26: a connect_websocket call that raises has not set the connected
\* flag, has started no keepalive task and has not added 'coindcx' to the
\* subscription set.
C26_Claim ==
    [][\A p \in Callers :
          (call[p].pc = "connecting" /\ call'[p] = Idle
              /\ ret' = Raised("connect_websocket"))
             => /\ ws_connected' = ws_connected
                /\ pingReady' + pingSleeping' = pingReady + pingSleeping
                /\ subscriptions' = subscriptions]_vars

\* C27: connect_websocket starts a transport connect only when the
\* connected flag is false; called while it is true it returns at once and
\* leaves the client, the transport, the wire and the keepalive tasks as
\* they were.
C27_ConnectWhileConnectedIsNoOp ==
    [][/\ \A p \in Callers :
             (call[p] = Idle /\ call'[p].pc = "connecting") => ~ws_connected
       /\ (ws_connected /\ call' = call /\ ret' # ret
              /\ ret' = Returned("connect_websocket"))
              => UNCHANGED <<clientVars, transportVars, taskVars>>]_vars

\* The flag was left true by a call that raised, and the next call has
\* returned at once: no join was written and nothing was subscribed.
C27_Witness ==
    /\ ret = Returned("connect_websocket")
    /\ \A p \in Callers : call[p] = Idle
    /\ ws_connected /\ transportUp
    /\ wire = <<>>
    /\ subscriptions = {}

====
